---- MODULE Spec2Model ----
(***************************************************************************)
(* Verification model of qci-enablement/qci-data.                          *)
(*                                                                         *)
(*  - SpecDeploy : one run of .github/workflows/deploy.yml, with the       *)
(*                 description script update-description.js.               *)
(*  - SpecDeployRace: the same run, with another writer of the             *)
(*                 description.                                            *)
(*  - SpecSetPart: the cells of Set-Partitioning-on-Dirac.ipynb.            *)
(*  - SpecQlcbo  : the cells of the QLCBO formulation notebook.             *)
(*  - SpecFeature: the cells of the feature selection notebook.            *)
(*  - SpecGarden : the cells of the garden notebook.                       *)
(*  - SpecJob    : one call of process_job, as the developer guide         *)
(*                 describes it.                                           *)
(*                                                                         *)
(* A string is modelled as the sequence of its lines (the pieces between   *)
(* "\n"), so  s + "\n" + t  is  Append(s, t)  and a JavaScript constant    *)
(* that begins with "\n" can only match a line at index 2 or later.        *)
(***************************************************************************)
EXTENDS Integers, Sequences, FiniteSets, TLC

VARIABLES
    \* ---- deploy workflow / update-description.js
    body,          \* the pull request description stored by GitHub
    pc,            \* index in Steps of the step to run next
    status,        \* "running", "success" or "failure" (job conclusion)
    cause,         \* why the job failed: "none", "external", "exception"
    PREVIEW_URLS,  \* the environment variable of that name
    changed,       \* added or modified files of the pull request
    event_number,  \* github.event.number, the pull request number
    alias,         \* number in the Netlify alias data-preview-<n>, 0 before the deploy
    currentPR,     \* script local: response of pulls.get
    ret            \* outcome of the last call of appendPreviewLinks

deployVars == <<body, pc, status, cause, PREVIEW_URLS, changed, event_number,
                alias, currentPR, ret>>

\* ---- Set-Partitioning-on-Dirac.ipynb (the notebook's namespace)
VARIABLES
    cell,          \* name of the next cell to run
    S,             \* list of sets
    W,             \* list of weights
    X,             \* union of the sets
    A,             \* membership matrix, one row per member of X
    b,             \* right-hand side
    J, h, offset,  \* quadratic part, linear part and constant of the penalty
    P,             \* penalty QUBO
    objective,     \* diagonal matrix of the weights
    alpha,         \* multiplier
    Q,             \* full QUBO
    out            \* what the last cell printed

spVars == <<cell, S, W, X, A, b, J, h, offset, P, objective, alpha, Q, out>>

\* ---- QLCBO formulation notebook
VARIABLES
    qcell,         \* name of the next cell to run
    obj,           \* objective matrix
    b_lhs,         \* the notebook's b: left-hand sides of the constraints
    rhs,           \* minus the right-hand sides
    constraints,   \* [b | rhs]
    job_alpha,     \* job_params["alpha"]
    qubo,          \* the QUBO that the job minimises
    job_response   \* response of process_job

qlVars == <<qcell, obj, b_lhs, rhs, constraints, job_alpha, qubo, job_response>>

\* ---- feature selection notebook
VARIABLES
    fs_cell,        \* name of the next cell to run
    REDUCED_DIM,    \* number of features to keep
    corr,           \* the notebook's C
    fs_objective,   \* the notebook's objective
    fs_constraints, \* the notebook's constraints
    sol             \* the sample that the notebook keeps

fsVars == <<fs_cell, REDUCED_DIM, corr, fs_objective, fs_constraints, sol>>

\* ---- garden notebook
VARIABLES
    g_cell,            \* name of the next cell to run
    kernel_has_solver, \* sample_hamiltonian and get_results are kernel globals
    hamC,              \* the notebook's C
    hamJ,              \* the notebook's J
    sum_constraint,
    response,          \* response of sample_hamiltonian
    printed            \* what show_results printed

gVars == <<g_cell, kernel_has_solver, hamC, hamJ, sum_constraint, response, printed>>

\* ---- process_job (Dirac-3 developer guide)
VARIABLES
    job_state,       \* state of the job at the API, "none" before submission
    job_history,     \* the states that the job has entered, in order
    job_status,      \* job_info.job_status: the timestamps
    clock,           \* current time
    log,             \* the lines that process_job has printed
    returned_status, \* job_response["status"], "none" until process_job returns
    guide_out        \* outcome of the cell: "none", "printed", "AssertionError"

jobVars == <<job_state, job_history, job_status, clock, log, returned_status,
             guide_out>>

vars == <<deployVars, spVars, qlVars, fsVars, gVars, jobVars>>

-----------------------------------------------------------------------------
(* Bounds *)
MaxLines == 3
MaxFiles == 2
NumSets == 3
MaxElem == 3
MaxCoef == 1
MaxRhs == 1
NumFeatures == 3
MaxClock == 3

-----------------------------------------------------------------------------
(* Lines of a description *)

Line(k, n, name) == [kind |-> k, n |-> n, name |-> name]

Blank == Line("blank", 0, "")
Text == Line("text", 0, "")
\* "## <other heading>": any line that starts with "##" and is not the header
OtherHeading == Line("h2", 0, "")
\* the text of PREVIEW_HEADER after its leading "\n"
PREVIEW_HEADER == Line("hdr", 0, "")
\* the text of LOADING_MSG after its leading "\n"
LOADING_MSG == Line("load", 0, "")
\* "- https://data-preview-<n>--qci-preview.netlify.app/<name>"
LinkLine(n, name) == Line("link", n, name)

FileNames == {"a.ipynb", "b.ipynb"}
PRNumbers == {7, 12}
runNumber == 3

\* sequences over T of length lo..hi
SeqsOf(T, lo, hi) == UNION {[1..k -> T] : k \in lo..hi}

\* sequences of distinct file names (the API lists a file once)
FileLists == {f \in SeqsOf(FileNames, 0, MaxFiles) :
                 \A i, j \in 1..Len(f) : i # j => f[i] # f[j]}

NullBody == [null |-> TRUE, lines |-> <<>>]
Str(lines) == [null |-> FALSE, lines |-> lines]

\* String.prototype.indexOf for a pattern "\n" + <a line of one of the kinds>:
\* the least index i >= from of such a line, 0 for JavaScript's -1
IndexOf(s, kinds, from) ==
    LET hits == {i \in 1..Len(s) : i >= from /\ s[i].kind \in kinds}
    IN IF hits = {} THEN 0 ELSE CHOOSE i \in hits : \A j \in hits : i <= j

RemoveAt(s, i) == [j \in 1..(Len(s) - 1) |-> IF j < i THEN s[j] ELSE s[j + 1]]

\* currentPR.body.replace(LOADING_MSG, ''): removes the first occurrence only
ReplaceLoading(s) ==
    LET i == IndexOf(s, {"load"}, 2) IN IF i = 0 THEN s ELSE RemoveAt(s, i)

\* process.env.PREVIEW_URLS?.split(',') ?? []   ("".split(",") is [""])
Unset == [set |-> FALSE, files |-> <<>>]
EnvOf(files) == [set |-> TRUE, files |-> files]
defaultPreviewURLs(env) ==
    IF ~env.set THEN <<>>
    ELSE IF env.files = <<>> THEN <<"">> ELSE env.files

\* `- ${new URL(path, baseURL).href}`
Href(path, n) == LinkLine(n, path)

\* new URL(line2.slice(1).trim(), baseURL).pathname, or the trimmed line
SectionPiece(line) == IF line.kind = "link" THEN Line("path", 0, line.name) ELSE line

Threw(err) == [threw |-> TRUE, error |-> err, value |-> <<>>]

(* appendPreviewLinks(currentDescription, pr_number) *)
appendPreviewLinks(currentDescription, pr_number, env) ==
    LET c == IndexOf(currentDescription, {"hdr"}, 2)
        urls == defaultPreviewURLs(env)
    IN IF c = 0
       THEN \* line 44 reads previewURLs, which is declared nowhere
            Threw("ReferenceError")
       ELSE LET end == IndexOf(currentDescription, {"hdr", "h2"}, c + 1)
                last == IF end = 0 THEN Len(currentDescription) ELSE end - 1
                \* the joined string, as its pieces; the first piece is the
                \* rest of the header line
                previewUrls == <<Blank>> \o
                    [i \in 1..(last - c) |-> SectionPiece(currentDescription[c + i])]
            IN IF urls # <<>>
               THEN \* line 61: previewUrls is a string, .include is undefined
                    Threw("TypeError")
               ELSE IF previewUrls = <<Blank>>
                    THEN Threw("TypeError")   \* line 65: a string has no push
                    ELSE Threw("TypeError")   \* line 69: a string has no map

-----------------------------------------------------------------------------
(* The workflow *)

Steps == <<"checkout", "setup-node", "restore-cache", "install-deps",
           "add-loading", "eslint", "cache-data", "sync-data", "cache-pandoc",
           "install-pandoc", "build", "netlify", "list-changes", "add-preview">>

ScriptSteps == {"add-loading", "add-preview"}
NotFetched == [fetched |-> FALSE, body |-> NullBody]
NoCall == [called |-> FALSE, cur |-> <<>>, threw |-> FALSE, error |-> "", value |-> <<>>]

InitLines == {Blank, Text, OtherHeading, PREVIEW_HEADER, LOADING_MSG} \cup
             {LinkLine(n, "a.ipynb") : n \in PRNumbers}

IdleSetPart ==
    /\ cell = "idle" /\ S = <<>> /\ W = <<>> /\ X = {} /\ A = <<>> /\ b = <<>>
    /\ J = <<>> /\ h = <<>> /\ offset = 0 /\ P = <<>> /\ objective = <<>>
    /\ alpha = 0 /\ Q = <<>> /\ out = [kind |-> "none"]

DeployInitial ==
    /\ pc = 1
    /\ status = "running"
    /\ cause = "none"
    /\ PREVIEW_URLS = Unset
    /\ alias = 0
    /\ currentPR = NotFetched
    /\ ret = NoCall

IdleDeploy ==
    /\ body = NullBody /\ pc = 0 /\ status = "idle" /\ cause = "none"
    /\ PREVIEW_URLS = Unset /\ changed = <<>> /\ event_number = 0 /\ alias = 0
    /\ currentPR = NotFetched /\ ret = NoCall

NoResponse == [status |-> "NONE", solution |-> <<>>, energy |-> 0,
               objective_value |-> 0, feasible |-> FALSE]

NoJobResponse == [status |-> "none", solution |-> <<>>, energy |-> 0]
NothingPrinted == [shown |-> FALSE, solution |-> <<>>, energy |-> 0,
                   solution_value |-> <<>>]

IdleQlcbo ==
    /\ qcell = "idle" /\ obj = <<>> /\ b_lhs = <<>> /\ rhs = <<>>
    /\ constraints = <<>> /\ job_alpha = 0 /\ qubo = <<>>
    /\ job_response = NoResponse

IdleFeature ==
    /\ fs_cell = "idle" /\ REDUCED_DIM = 0 /\ corr = <<>>
    /\ fs_objective = <<>> /\ fs_constraints = <<>> /\ sol = <<>>

IdleGarden ==
    /\ g_cell = "idle" /\ kernel_has_solver = FALSE /\ hamC = <<>>
    /\ hamJ = <<>> /\ sum_constraint = 0 /\ response = NoJobResponse
    /\ printed = NothingPrinted

NoStamps == [submitted_at |-> 0, queued_at |-> 0, running_at |-> 0,
             completed_at |-> 0]

IdleJob ==
    /\ job_state = "idle" /\ job_history = <<>> /\ job_status = NoStamps
    /\ clock = 0 /\ log = <<>> /\ returned_status = "none"
    /\ guide_out = "none"

InitDeploy ==
    /\ IdleSetPart /\ IdleQlcbo /\ IdleFeature /\ IdleGarden /\ IdleJob
    /\ body \in {NullBody} \cup {Str(l) : l \in SeqsOf(InitLines, 1, MaxLines)}
    /\ pc = 1
    /\ status = "running"
    /\ cause = "none"
    /\ PREVIEW_URLS = Unset
    /\ changed \in FileLists
    /\ event_number \in PRNumbers
    /\ alias = 0
    /\ currentPR = NotFetched
    /\ ret = NoCall

\* a step of the workflow leaves the notebooks alone
DeployOnly == UNCHANGED <<spVars, qlVars, fsVars, gVars, jobVars>>

AtStep(name) == status = "running" /\ pc \in 1..Len(Steps) /\ Steps[pc] = name

Advance ==
    /\ pc' = pc + 1
    /\ status' = IF pc = Len(Steps) THEN "success" ELSE "running"
    /\ cause' = cause

Fail(why) ==
    /\ pc' = pc
    /\ status' = "failure"
    /\ cause' = why

\* a step whose command is not part of this repository succeeds
ExternalStepOK ==
    /\ status = "running" /\ pc \in 1..Len(Steps)
    /\ Steps[pc] \notin ScriptSteps \cup {"netlify", "list-changes"}
    /\ Advance
    /\ DeployOnly
    /\ UNCHANGED <<body, PREVIEW_URLS, changed, event_number, alias, currentPR, ret>>

\* ... or fails, and the remaining steps are skipped
ExternalStepFail ==
    /\ status = "running" /\ pc \in 1..Len(Steps)
    /\ Steps[pc] \notin ScriptSteps \cup {"list-changes"}
    /\ Fail("external")
    /\ DeployOnly
    /\ UNCHANGED <<body, PREVIEW_URLS, changed, event_number, alias, currentPR, ret>>

\* deploy --alias=data-preview-${{ github.event.number }}
NetlifyDeploy ==
    /\ AtStep("netlify")
    /\ alias' = event_number
    /\ Advance
    /\ DeployOnly
    /\ UNCHANGED <<body, PREVIEW_URLS, changed, event_number, currentPR, ret>>

\* echo "PREVIEW_URLS=$files" >> $GITHUB_ENV ; the pipeline ends in paste and
\* the shell has no pipefail, so the step succeeds with an empty list when
\* the request fails
ListChanges ==
    /\ AtStep("list-changes")
    /\ \E files \in {changed, <<>>} : PREVIEW_URLS' = EnvOf(files)
    /\ Advance
    /\ DeployOnly
    /\ UNCHANGED <<body, changed, event_number, alias, currentPR, ret>>

\* github.context.payload.pull_request?.number ?? github.context.runNumber
\* (the workflow runs on pull_request events only)
pr_number == IF event_number \in PRNumbers THEN event_number ELSE runNumber

\* octokit.pulls.get
ScriptGet ==
    /\ status = "running" /\ pc \in 1..Len(Steps) /\ Steps[pc] \in ScriptSteps
    /\ ~currentPR.fetched
    /\ currentPR' = [fetched |-> TRUE, body |-> body]
    /\ DeployOnly
    /\ UNCHANGED <<body, pc, status, cause, PREVIEW_URLS, changed, event_number, alias, ret>>

\* the request fails: caught, core.setFailed
ScriptGetFail ==
    /\ status = "running" /\ pc \in 1..Len(Steps) /\ Steps[pc] \in ScriptSteps
    /\ ~currentPR.fetched
    /\ Fail("external")
    /\ DeployOnly
    /\ UNCHANGED <<body, PREVIEW_URLS, changed, event_number, alias, currentPR, ret>>

\* lines 23-33 with DESC_STATE = 'loading'
ScriptLoading ==
    /\ AtStep("add-loading")
    /\ currentPR.fetched
    /\ IF currentPR.body.null
       THEN \* null.replace: TypeError, caught, core.setFailed
            /\ Fail("exception")
            /\ UNCHANGED body
       ELSE LET currentDescription == ReplaceLoading(currentPR.body.lines)
                newDescription == Append(currentDescription, LOADING_MSG)
            IN /\ body' = IF newDescription # currentDescription
                          THEN Str(newDescription) ELSE body
               /\ Advance
    /\ currentPR' = NotFetched
    /\ DeployOnly
    /\ UNCHANGED <<PREVIEW_URLS, changed, event_number, alias, ret>>

\* lines 23-33 with DESC_STATE undefined
ScriptPreview ==
    /\ AtStep("add-preview")
    /\ currentPR.fetched
    /\ IF currentPR.body.null
       THEN /\ Fail("exception")
            /\ UNCHANGED <<body, ret>>
       ELSE LET currentDescription == ReplaceLoading(currentPR.body.lines)
                r == appendPreviewLinks(currentDescription, pr_number, PREVIEW_URLS)
            IN /\ ret' = [called |-> TRUE, cur |-> currentDescription,
                          threw |-> r.threw, error |-> r.error, value |-> r.value]
               /\ IF r.threw
                  THEN /\ Fail("exception")
                       /\ UNCHANGED body
                  ELSE /\ body' = IF r.value # currentDescription
                                  THEN Str(r.value) ELSE body
                       /\ Advance
    /\ currentPR' = NotFetched
    /\ DeployOnly
    /\ UNCHANGED <<PREVIEW_URLS, changed, event_number, alias>>

NextDeploy ==
    \/ ExternalStepOK
    \/ ExternalStepFail
    \/ NetlifyDeploy
    \/ ListChanges
    \/ ScriptGet
    \/ ScriptGetFail
    \/ ScriptLoading
    \/ ScriptPreview

SpecDeploy == InitDeploy /\ [][NextDeploy]_vars

\* the description has the loading message that 'Add Loading' appends
HasLoading(d) == ~d.null /\ IndexOf(d.lines, {"load"}, 2) # 0

\* the description has the header followed by at least one preview link
HasPreviews(d) ==
    /\ ~d.null
    /\ LET c == IndexOf(d.lines, {"hdr"}, 2)
       IN c # 0 /\ c < Len(d.lines) /\ d.lines[c + 1].kind = "link"

\* the final step has run and the job is over, and nothing outside the
\* repository (a command, a request to GitHub) has failed
RunCompleted == status # "running" /\ pc >= Len(Steps) /\ cause # "external"

GivenPaths == defaultPreviewURLs(PREVIEW_URLS)

HeaderAbsent(d) == IndexOf(d, {"hdr"}, 2) = 0

\* C6: without a Previews header, appendPreviewLinks returns the description
\* followed by the header and one link per path of PREVIEW_URLS in order, or
\* a single link to "/" when there are no paths.
C6_HeaderAbsentAppendsSection ==
    (ret.called /\ HeaderAbsent(ret.cur)) =>
        /\ ~ret.threw
        /\ ret.value = ret.cur \o <<PREVIEW_HEADER>> \o
              (IF GivenPaths = <<>> THEN <<Href("", pr_number)>>
               ELSE [i \in 1..Len(GivenPaths) |-> Href(GivenPaths[i], pr_number)])

\* the lines of the Previews section of a description that has the header
SectionOf(d) ==
    LET c == IndexOf(d, {"hdr"}, 2)
        end == IndexOf(d, {"hdr", "h2"}, c + 1)
        last == IF end = 0 THEN Len(d) ELSE end - 1
    IN [i \in 1..(last - c) |-> d[c + i]]

ListedPaths(d) == {SectionOf(d)[i].name : i \in {k \in 1..Len(SectionOf(d)) :
                                                  SectionOf(d)[k].kind = "link"}}

\* C7: with a Previews header, appendPreviewLinks keeps the listed paths
\* and adds the missing paths of PREVIEW_URLS; the section of the result
\* lists each of them exactly once, and "/" when there is none.
C7_HeaderPresentMergesSection ==
    (ret.called /\ ~HeaderAbsent(ret.cur)) =>
        /\ ~ret.threw
        /\ ~HeaderAbsent(ret.value)
        /\ LET wanted == ListedPaths(ret.cur) \cup {GivenPaths[i] : i \in 1..Len(GivenPaths)}
               section == SectionOf(ret.value)
           IN \A p \in (IF wanted = {} THEN {""} ELSE wanted) :
                 Cardinality({k \in 1..Len(section) : section[k] = Href(p, pr_number)}) = 1

-----------------------------------------------------------------------------
(* Set-Partitioning-on-Dirac.ipynb / Set-Partition-Tutorial.ipynb *)

RECURSIVE SumOver(_, _)
\* sum of f[d] for d in D
SumOver(f, D) ==
    IF D = {} THEN 0
    ELSE LET d == CHOOSE e \in D : TRUE IN f[d] + SumOver(f, D \ {d})

\* u @ v for two vectors over the index set D
Dot(u, v, D) == SumOver([d \in D |-> u[d] * v[d]], D)

\* s.T @ M @ s for a square matrix over 1..Len(s)
Quad(M, s) ==
    LET D == 1..Len(s)
    IN SumOver([i \in D |-> s[i] * Dot(M[i], s, D)], D)

RECURSIVE MaxOver(_, _)
\* the largest f[d], d in D (D is not empty)
MaxOver(f, D) ==
    LET d == CHOOSE e \in D : TRUE
    IN IF D = {d} THEN f[d]
       ELSE LET m == MaxOver(f, D \ {d}) IN IF f[d] > m THEN f[d] ELSE m

Elems == 1..MaxElem
NonEmptySets == (SUBSET Elems) \ {{}}

\* X = X.union(S_i) for S_i in S
UnionOf(sets) == UNION {sets[i] : i \in 1..Len(sets)}

\* row = [1 if x in S_i else 0 for S_i in S], one row per x in X
MembershipMatrix(sets, members) ==
    [x \in members |-> [i \in 1..Len(sets) |-> IF x \in sets[i] THEN 1 ELSE 0]]

\* b = np.ones((A.shape[0],))
Ones(D) == [d \in D |-> 1]

\* J = A.T @ A
JOf(a, n) == [i \in 1..n |-> [j \in 1..n |->
                 SumOver([x \in DOMAIN a |-> a[x][i] * a[x][j]], DOMAIN a)]]

\* h = -b.T @ A : the factor 2 is lost
hOfHalved(a, bv, n) ==
    [i \in 1..n |-> -SumOver([x \in DOMAIN a |-> bv[x] * a[x][i]], DOMAIN a)]

\* h = -2 * b.T @ A
hOf(a, bv, n) ==
    [i \in 1..n |-> -2 * SumOver([x \in DOMAIN a |-> bv[x] * a[x][i]], DOMAIN a)]

\* offset = b.T @ b
offsetOf(bv) == Dot(bv, bv, DOMAIN bv)

\* np.diag(v)
Diag(v) == [i \in 1..Len(v) |-> [j \in 1..Len(v) |-> IF i = j THEN v[i] ELSE 0]]

\* M + N and k * M, elementwise
MatAdd(M, N) == [i \in DOMAIN M |-> [j \in DOMAIN M[i] |-> M[i][j] + N[i][j]]]
MatScale(k, M) == [i \in DOMAIN M |-> [j \in DOMAIN M[i] |-> k * M[i][j]]]

\* np.max(M): the largest entry of the matrix
MatMax(M) == MaxOver([i \in DOMAIN M |-> MaxOver(M[i], DOMAIN M[i])], DOMAIN M)

\* check_result with a partition test that only looks at the coverage
check_resultCoverageOnly(sets, members, smp, objm) ==
    LET sel == {i \in 1..Len(sets) : smp[i] = 1}
        testX == UNION {sets[i] : i \in sel}
    IN [kind |-> "check",
        objective |-> IF objm = <<>> THEN <<>> ELSE <<Quad(objm, smp)>>,
        selected |-> sel,
        coverageNum |-> 100 * Cardinality(testX),
        coverageDen |-> Cardinality(members),
        partition |-> (Cardinality(testX) = Cardinality(members))]

\* check_result(results, objective), for one sample of the results: testX is
\* the union of the selected sets and members the concatenation of their
\* elements; obj = <<>> stands for objective=None. The record holds the
\* printed lines: the objective value, the selected sets, the coverage
\* 100*len(testX)/len(X) as a fraction, and the partition test.
check_result(sets, members, smp, objm) ==
    LET sel == {i \in 1..Len(sets) : smp[i] = 1}
        testX == UNION {sets[i] : i \in sel}
        lenMembers == SumOver([i \in sel |-> Cardinality(sets[i])], sel)
    IN [kind |-> "check",
        objective |-> IF objm = <<>> THEN <<>> ELSE <<Quad(objm, smp)>>,
        selected |-> sel,
        coverageNum |-> 100 * Cardinality(testX),
        coverageDen |-> Cardinality(members),
        partition |-> (Cardinality(testX) = lenMembers)]

BinaryVectors(n) == [1..n -> {0, 1}]
NoOutput == [kind |-> "none"]

\* S of the notebook, with the letters A..F written 1..6
NotebookS == <<{1, 2, 3}, {4, 5, 6}, {1, 6}, {2, 5}, {3, 4}, {1}, {2},
               {3, 4, 5}, {2, 3}>>

\* np.random.seed(21); 100 * np.random.random(), nine times: the diagonal of
\* the recorded objective, in units of 0.01
SeedWeights == <<487, 2891, 7210, 216, 2059, 508, 3023, 6639, 3081>>

\* other lists of different sets, for the same cells
SetLists == {l \in [1..NumSets -> NonEmptySets] :
                \A i, j \in 1..NumSets : i # j => l[i] # l[j]}

\* "S is a collection of 9 different sets"; W = [100 * random() for S_i in S]
InitSetPart ==
    /\ IdleDeploy /\ IdleQlcbo /\ IdleFeature /\ IdleGarden /\ IdleJob
    /\ cell = "X"
    /\ S \in {NotebookS} \cup SetLists
    /\ W = [i \in 1..Len(S) |-> SeedWeights[i]]
    /\ X = {} /\ A = <<>> /\ b = <<>>
    /\ J = <<>> /\ h = <<>> /\ offset = 0 /\ P = <<>> /\ objective = <<>>
    /\ alpha = 0 /\ Q = <<>> /\ out = NoOutput

SetPartOnly == UNCHANGED <<deployVars, qlVars, fsVars, gVars, jobVars>>

CellX ==
    /\ cell = "X"
    /\ X' = UnionOf(S)
    /\ cell' = "A" /\ out' = NoOutput
    /\ SetPartOnly
    /\ UNCHANGED <<S, W, A, b, J, h, offset, P, objective, alpha, Q>>

CellA ==
    /\ cell = "A"
    /\ A' = MembershipMatrix(S, X)
    /\ cell' = "b" /\ out' = NoOutput
    /\ SetPartOnly
    /\ UNCHANGED <<S, W, X, b, J, h, offset, P, objective, alpha, Q>>

CellB ==
    /\ cell = "b"
    /\ b' = Ones(DOMAIN A)
    /\ cell' = "Jh" /\ out' = NoOutput
    /\ SetPartOnly
    /\ UNCHANGED <<S, W, X, A, J, h, offset, P, objective, alpha, Q>>

CellJh ==
    /\ cell = "Jh"
    /\ J' = JOf(A, Len(S))
    /\ h' = hOf(A, b, Len(S))
    /\ offset' = offsetOf(b)
    /\ cell' = "P" /\ out' = NoOutput
    /\ SetPartOnly
    /\ UNCHANGED <<S, W, X, A, b, P, objective, alpha, Q>>

\* P = J + np.diag(h.T[0])
CellP ==
    /\ cell = "P"
    /\ P' = MatAdd(J, Diag(h))
    /\ cell' = "check1" /\ out' = NoOutput
    /\ SetPartOnly
    /\ UNCHANGED <<S, W, X, A, b, J, h, offset, objective, alpha, Q>>

\* process_job returns samples of the device (any 0/1 vectors); check_result
\* prints the report of each; the model follows one of them
CellCheck ==
    /\ cell \in {"check1", "check2"}
    /\ \E smp \in BinaryVectors(Len(S)) :
          out' = check_result(S, X, smp, IF cell = "check1" THEN <<>> ELSE objective)
    /\ cell' = IF cell = "check1" THEN "objective" ELSE "done"
    /\ SetPartOnly
    /\ UNCHANGED <<S, W, X, A, b, J, h, offset, P, objective, alpha, Q>>

\* objective = np.diag([W[i] for i in range(len(S))])
CellObjective ==
    /\ cell = "objective"
    /\ objective' = Diag(W)
    /\ cell' = "alpha" /\ out' = NoOutput
    /\ SetPartOnly
    /\ UNCHANGED <<S, W, X, A, b, J, h, offset, P, alpha, Q>>

\* alpha = np.max(objective)
CellAlpha ==
    /\ cell = "alpha"
    /\ alpha' = MatMax(objective)
    /\ cell' = "Q" /\ out' = NoOutput
    /\ SetPartOnly
    /\ UNCHANGED <<S, W, X, A, b, J, h, offset, P, objective, Q>>

\* Q = objective + alpha * P
CellQ ==
    /\ cell = "Q"
    /\ Q' = MatAdd(objective, MatScale(alpha, P))
    /\ cell' = "check2" /\ out' = NoOutput
    /\ SetPartOnly
    /\ UNCHANGED <<S, W, X, A, b, J, h, offset, P, objective, alpha>>

NextSetPart ==
    \/ CellX
    \/ CellA
    \/ CellB
    \/ CellJh
    \/ CellP
    \/ CellObjective
    \/ CellAlpha
    \/ CellQ
    \/ CellCheck

SpecSetPart == InitSetPart /\ [][NextSetPart]_vars

\* every member of X lies in exactly one selected set: A s = b
ExactCover(s) ==
    \A x \in X : Cardinality({i \in 1..Len(S) : s[i] = 1 /\ x \in S[i]}) = 1

\* P(s) = s^T (A^T A) s - (2 b^T A) s + b^T b, with the notebook's J, h, offset
Penalty(s) == Quad(J, s) + Dot(h, s, 1..Len(s)) + offset

\* the cell that builds P has just run
PenaltyBuilt == cell = "check1"

\* C2: once J, h and offset are built, the penalty of a 0/1 selection is 0
\* exactly when the selection is an exact cover of X, and positive otherwise.
C2_PenaltyZeroIffExactCover ==
    PenaltyBuilt =>
        \A s \in BinaryVectors(Len(S)) :
            /\ Penalty(s) >= 0
            /\ (Penalty(s) = 0) <=> ExactCover(s)

C2_Witness ==
    /\ PenaltyBuilt
    /\ \E s \in BinaryVectors(Len(S)) : ExactCover(s) /\ Penalty(s) = 0
    /\ \E s \in BinaryVectors(Len(S)) : ~ExactCover(s) /\ Penalty(s) > 0

\* the cell that builds Q has just run
QBuilt == cell = "check2"
Value(s) == Quad(Q, s)

Feasible == {f \in BinaryVectors(Len(S)) : ExactCover(f)}

Selection(o) == [i \in 1..Len(S) |-> IF i \in o.selected THEN 1 ELSE 0]

\* C8: check_result prints 'Set coverage 100.0%' and 'Partition found: True'
\* for a sample exactly when the sample is an exact cover of X.
C8_CheckResultIffExactCover ==
    out.kind = "check" =>
        ((out.coverageNum = 100 * out.coverageDen /\ out.partition)
            <=> ExactCover(Selection(out)))

C8_Witness ==
    /\ out.kind = "check"
    /\ out.coverageNum = 100 * out.coverageDen
    /\ out.partition
    /\ ExactCover(Selection(out))

\* either line of the report alone is printed for samples that are no cover
C8_CoverageAloneReached ==
    out.kind = "check" /\ out.coverageNum = 100 * out.coverageDen /\ ~out.partition
C8_PartitionAloneReached ==
    out.kind = "check" /\ out.coverageNum # 100 * out.coverageDen /\ out.partition

-----------------------------------------------------------------------------
(* QLCBO formulation notebook (src/unnamed/part_002) *)

\* the objective is kept in units of 1/2: obj holds 2 * (the notebook's obj)
HalfUnits == 2

num_variables == 3
num_constraints == 2

\* obj = [[0, -1.5, 0.5], [-1.5, 0, 0], [0.5, 0, 0]]
NotebookObj == <<<<0, -3, 1>>, <<-3, 0, 0>>, <<1, 0, 0>>>>
\* b = [[1, 0, 1], [2, 2, 0]]  (the left-hand sides of the constraints)
NotebookLhs == <<<<1, 0, 1>>, <<2, 2, 0>>>>
\* rhs = -[[1], [2]]
NotebookRhs == <<-1, -2>>
\* job_params alpha
NotebookAlpha == 2

\* np.hstack((b, rhs))
Hstack(lhs, r) == [k \in 1..Len(lhs) |-> Append(lhs[k], r[k])]

\* A x = b  ->  A x - b = 0 : the constraint file holds [A | -b]
LhsOf(cons) == [k \in 1..Len(cons) |-> SubSeq(cons[k], 1, Len(cons[k]) - 1)]
RhsOf(cons) == [k \in 1..Len(cons) |-> -cons[k][Len(cons[k])]]

\* Q = O + alpha * (A^T A - diag(b^T A)) : the factor 2 is lost
QuboOfHalved(O, Amat, bvec, al) ==
    LET n == Len(O)
        K == 1..Len(Amat)
    IN [i \in 1..n |-> [j \in 1..n |->
          O[i][j] + HalfUnits * al *
             (SumOver([k \in K |-> Amat[k][i] * Amat[k][j]], K)
              - (IF i = j THEN SumOver([k \in K |-> bvec[k] * Amat[k][i]], K)
                 ELSE 0))]]

\* Q = O + alpha * (A^T A - 2 diag(b^T A))
QuboOf(O, Amat, bvec, al) ==
    LET n == Len(O)
        K == 1..Len(Amat)
    IN [i \in 1..n |-> [j \in 1..n |->
          O[i][j] + HalfUnits * al *
             (SumOver([k \in K |-> Amat[k][i] * Amat[k][j]], K)
              - (IF i = j THEN 2 * SumOver([k \in K |-> bvec[k] * Amat[k][i]], K)
                 ELSE 0))]]

\* |A x - b|^2
Residual2(Amat, bvec, x) ==
    LET K == 1..Len(Amat)
        r == [k \in K |-> Dot(Amat[k], x, 1..Len(x)) - bvec[k]]
    IN Dot(r, r, K)

Satisfies(Amat, bvec, x) ==
    \A k \in 1..Len(Amat) : Dot(Amat[k], x, 1..Len(x)) = bvec[k]

\* x* = min_x x^T Q x
ArgMin(M) ==
    LET val == [x \in BinaryVectors(Len(M)) |-> Quad(M, x)]
    IN {x \in DOMAIN val : \A y \in DOMAIN val : val[x] <= val[y]}

AlphaVals == {-1, 0, 1, NotebookAlpha}

InitQlcbo ==
    /\ IdleDeploy /\ IdleSetPart /\ IdleFeature /\ IdleGarden /\ IdleJob
    /\ qcell = "constraints"
    /\ obj = NotebookObj
    /\ \/ b_lhs = NotebookLhs /\ rhs = NotebookRhs
       \/ /\ b_lhs \in [1..num_constraints -> [1..num_variables -> 0..MaxCoef]]
          /\ rhs \in [1..num_constraints -> {-v : v \in 0..MaxRhs}]
    /\ constraints = <<>> /\ job_alpha = 0 /\ qubo = <<>>
    /\ job_response = NoResponse

QlcboOnly == UNCHANGED <<deployVars, spVars, fsVars, gVars, jobVars>>

\* constraints = np.hstack((b, rhs))
CellConstraints ==
    /\ qcell = "constraints"
    /\ constraints' = Hstack(b_lhs, rhs)
    /\ qcell' = "job_body"
    /\ QlcboOnly
    /\ UNCHANGED <<obj, b_lhs, rhs, job_alpha, qubo, job_response>>

\* build_job_body(job_type="sample-constraint", job_params={"alpha": ...})
CellJobBody ==
    /\ qcell = "job_body"
    /\ job_alpha' \in AlphaVals
    /\ qcell' = "process_job"
    /\ QlcboOnly
    /\ UNCHANGED <<obj, b_lhs, rhs, constraints, qubo, job_response>>

\* process_job: the QUBO of the Mathematical Definition is minimised over the
\* binary vectors; the response reports the sample, its energy x^T Q x, its
\* objective value x^T O x and its feasibility
CellProcessJob ==
    /\ qcell = "process_job"
    /\ LET Amat == LhsOf(constraints)
           bvec == RhsOf(constraints)
           M == QuboOf(obj, Amat, bvec, job_alpha)
       IN /\ qubo' = M
          /\ \E x \in ArgMin(M) :
                job_response' = [status |-> "COMPLETED", solution |-> x,
                                 energy |-> Quad(M, x),
                                 objective_value |-> Quad(obj, x),
                                 feasible |-> Satisfies(Amat, bvec, x)]
    /\ qcell' = "done"
    /\ QlcboOnly
    /\ UNCHANGED <<obj, b_lhs, rhs, constraints, job_alpha>>

NextQlcbo ==
    \/ CellConstraints
    \/ CellJobBody
    \/ CellProcessJob

SpecQlcbo == InitQlcbo /\ [][NextQlcbo]_vars

\* alpha * (|A x - b|^2 - b^T b), in units of 1/2
PenaltyPart(x) ==
    HalfUnits * job_alpha *
        (Residual2(LhsOf(constraints), RhsOf(constraints), x)
         - Dot(RhsOf(constraints), RhsOf(constraints), 1..Len(constraints)))

QuboIdentity ==
    \A x \in BinaryVectors(num_variables) :
        Quad(qubo, x) = Quad(obj, x) + PenaltyPart(x)

MinimalPenalty ==
    LET val == [x \in BinaryVectors(num_variables) |-> PenaltyPart(x)]
    IN {x \in DOMAIN val : \A y \in DOMAIN val : val[x] <= val[y]}

Solutions == {x \in BinaryVectors(num_variables) :
                 Satisfies(LhsOf(constraints), RhsOf(constraints), x)}

\* C4 as stated: for any real alpha, x^T Q x = x^T O x + alpha (|Ax-b|^2 - b^T b)
\* for every binary x, and the penalty part is minimal exactly on the x with
\* A x = b.
C4_AsStated ==
    qcell = "done" => (QuboIdentity /\ MinimalPenalty = Solutions)

\* C4 amended: the identity holds for any alpha; the penalty part is minimal
\* exactly on the x with A x = b when alpha > 0 and some binary x has A x = b.
C4_QuboIdentity ==
    qcell = "done" =>
        /\ QuboIdentity
        /\ (job_alpha > 0 /\ Solutions # {}) => MinimalPenalty = Solutions

\* the recorded run: alpha = 2, sample [1, 0, 0], energy -10, objective 0
C4_Witness ==
    /\ qcell = "done"
    /\ constraints = Hstack(NotebookLhs, NotebookRhs)
    /\ job_alpha = NotebookAlpha
    /\ job_response.solution = <<1, 0, 0>>
    /\ job_response.energy = HalfUnits * (-10)
    /\ job_response.objective_value = 0
    /\ job_response.feasible
    /\ MinimalPenalty = Solutions

-----------------------------------------------------------------------------
(* Feature selection notebook (src/unnamed/part_001) *)

\* a correlation is kept as an integer number of units of 2^-25
CorrScale == 33554432
\* np.float32 keeps 24 significant bits
FloatBits == 24

\* len(feature_names)
orig_dim == NumFeatures

RECURSIVE BitLen(_)
BitLen(v) == IF v = 0 THEN 0 ELSE 1 + BitLen(v \div 2)

RECURSIVE Pow2(_)
Pow2(k) == IF k = 0 THEN 1 ELSE 2 * Pow2(k - 1)

\* the nearest number with FloatBits significant bits, ties to even (m >= 0)
RoundMagnitude(m) ==
    LET e == BitLen(m) - FloatBits
    IN IF e <= 0 THEN m
       ELSE LET q == Pow2(e)
                lo == m \div q
                r == m % q
                up == \/ 2 * r > q
                      \/ 2 * r = q /\ lo % 2 = 1
            IN IF up THEN (lo + 1) * q ELSE lo * q

\* np.array(v, dtype=np.float32)
Float32(v) == IF v < 0 THEN -RoundMagnitude(-v) ELSE RoundMagnitude(v)

\* |corr(f_i, f_j)| of two different features
CorrVals == {0, CorrScale \div 2, CorrScale \div 2 + 1}

FeaturePairs == {p \in (1..orig_dim) \X (1..orig_dim) : p[1] < p[2]}

\* abs(np.corrcoef(X, rowvar=False)) : C_ii = 1
AbsCorr(f) == [i \in 1..orig_dim |-> [j \in 1..orig_dim |->
                  IF i = j THEN CorrScale
                  ELSE IF i < j THEN f[<<i, j>>] ELSE f[<<j, i>>]]]

\* 0.5 * (C + C.transpose())
Symmetrize(M) == [i \in DOMAIN M |-> [j \in DOMAIN M |->
                     (M[i][j] + M[j][i]) \div 2]]

\* np.eye(orig_dim)
Eye(n) == [i \in 1..n |-> [j \in 1..n |-> IF i = j THEN CorrScale ELSE 0]]

\* C - np.ones((orig_dim, orig_dim)) : every entry is lowered
DropDiagonalOnes(M) ==
    [i \in DOMAIN M |-> [j \in DOMAIN M |-> M[i][j] - CorrScale]]

\* C - np.eye(orig_dim)
DropDiagonal(M) == MatAdd(M, MatScale(-1, Eye(Len(M))))

\* np.array(objective, dtype=np.float32)
CastFloat32(M) == [i \in DOMAIN M |-> [j \in DOMAIN M |-> Float32(M[i][j])]]

\* sum(sol)
SumOf(x) == SumOver(x, DOMAIN x)

\* the feasible x with the smallest x^T M x
ArgMinOver(M, F) ==
    LET val == [x \in F |-> Quad(M, x)]
    IN {x \in F : \A y \in F : val[x] <= val[y]}

InitFeature ==
    /\ IdleDeploy /\ IdleSetPart /\ IdleQlcbo /\ IdleGarden /\ IdleJob
    /\ fs_cell = "objective"
    /\ REDUCED_DIM \in 1..(orig_dim - 1)
    /\ corr = <<>> /\ fs_objective = <<>> /\ fs_constraints = <<>>
    /\ sol = <<>>

FeatureOnly == UNCHANGED <<deployVars, spVars, qlVars, gVars, jobVars>>

\* "Generate the objective matrix"
CellGenerateObjective ==
    /\ fs_cell = "objective"
    /\ \E f \in [FeaturePairs -> CorrVals] :
          LET M == Symmetrize(AbsCorr(f))
          IN /\ corr' = M
             /\ fs_objective' = CastFloat32(DropDiagonal(M))
    /\ fs_cell' = "constraint"
    /\ FeatureOnly
    /\ UNCHANGED <<REDUCED_DIM, fs_constraints, sol>>

\* "Generate the constraint"
CellGenerateConstraint ==
    /\ fs_cell = "constraint"
    /\ fs_constraints' = Append(Ones(1..orig_dim), -REDUCED_DIM)
    /\ fs_cell' = "solve"
    /\ FeatureOnly
    /\ UNCHANGED <<REDUCED_DIM, corr, fs_objective, sol>>

\* "Solve the optimization problem": the device returns samples, the notebook
\* keeps the first feasible one (the last one when none is) and asserts
\* sum(sol) == REDUCED_DIM
CellSolve ==
    /\ fs_cell = "solve"
    /\ \E x \in BinaryVectors(orig_dim) :
          /\ sol' = x
          /\ fs_cell' = IF SumOf(x) = REDUCED_DIM THEN "selected"
                        ELSE "AssertionError"
    /\ FeatureOnly
    /\ UNCHANGED <<REDUCED_DIM, corr, fs_objective, fs_constraints>>

NextFeature ==
    \/ CellGenerateObjective
    \/ CellGenerateConstraint
    \/ CellSolve

SpecFeature == InitFeature /\ [][NextFeature]_vars

\* the binary x that select exactly d' = REDUCED_DIM features
Selections == {x \in BinaryVectors(orig_dim) : SumOf(x) = REDUCED_DIM}

\* the objective cell has just run
ObjectiveBuilt == fs_cell = "constraint"

-----------------------------------------------------------------------------
(* Garden notebook, "A gentle introduction to optimization"
   (src/unnamed/part_000) *)

\* H = sum_i C_i V_i + sum_ij J_ij V_i V_j
Hamiltonian(Cv, Jm, V) ==
    LET N == 1..Len(V)
    IN SumOver([i \in N |-> Cv[i] * V[i]], N)
       + SumOver([p \in N \X N |-> Jm[p[1]][p[2]] * V[p[1]] * V[p[2]]], N \X N)

\* solution.T@J@solution : the linear term C.T@solution is left out
SolutionValueQuadOnly(Cv, Jm, solution) == <<Quad(Jm, solution)>>

\* C.T@solution + solution.T@J@solution : an array with one entry
SolutionValue(Cv, Jm, solution) ==
    <<Dot(Cv, solution, 1..Len(solution)) + Quad(Jm, solution)>>

\* A(x) = x(100 - 2x), with y = 100 - 2x
GardenY(x) == sum_constraint - 2 * x
Area(x) == x * GardenY(x)

\* sample_hamiltonian and get_results are defined inside ising_solver(): a
\* fresh kernel does not have them, a kernel that ran them before does
InitGarden ==
    /\ IdleDeploy /\ IdleSetPart /\ IdleQlcbo /\ IdleFeature /\ IdleJob
    /\ g_cell = "hamiltonian"
    /\ kernel_has_solver \in BOOLEAN
    /\ hamC = <<>> /\ hamJ = <<>> /\ sum_constraint = 0
    /\ response = NoJobResponse
    /\ printed = NothingPrinted

GardenOnly == UNCHANGED <<deployVars, spVars, qlVars, fsVars, jobVars>>

\* C = np.array([[-100],[0]]); J = np.array([[2, 0], [0, 0]]);
\* sum_constraint = 100
CellHamiltonian ==
    /\ g_cell = "hamiltonian"
    /\ hamC' = <<-100, 0>>
    /\ hamJ' = <<<<2, 0>>, <<0, 0>>>>
    /\ sum_constraint' = 100
    /\ g_cell' = "define"
    /\ GardenOnly
    /\ UNCHANGED <<kernel_has_solver, response, printed>>

\* def ising_solver(): ... ; def show_results(): ...
CellDefine ==
    /\ g_cell = "define"
    /\ g_cell' = "sample"
    /\ GardenOnly
    /\ UNCHANGED <<kernel_has_solver, hamC, hamJ, sum_constraint, response, printed>>

\* response = sample_hamiltonian(...); get_results(response); show_results()
CellSample ==
    /\ g_cell = "sample"
    /\ kernel_has_solver
    /\ \E x1 \in 0..sum_constraint :
          LET solution == <<x1, sum_constraint - x1>>
              energy == Hamiltonian(hamC, hamJ, solution)
          IN /\ response' = [status |-> "completed", solution |-> solution,
                             energy |-> energy]
             /\ printed' = [shown |-> TRUE, solution |-> solution,
                            energy |-> energy,
                            solution_value |-> SolutionValue(hamC, hamJ, solution)]
    /\ g_cell' = "done"
    /\ GardenOnly
    /\ UNCHANGED <<kernel_has_solver, hamC, hamJ, sum_constraint>>

\* the same cell on a kernel without sample_hamiltonian
CellSampleNameError ==
    /\ g_cell = "sample"
    /\ ~kernel_has_solver
    /\ g_cell' = "NameError"
    /\ GardenOnly
    /\ UNCHANGED <<kernel_has_solver, hamC, hamJ, sum_constraint, response, printed>>

NextGarden ==
    \/ CellHamiltonian
    \/ CellDefine
    \/ CellSample
    \/ CellSampleNameError

SpecGarden == InitGarden /\ [][NextGarden]_vars

\* the non-negative integer pairs with x1 + x2 = sum_constraint
FencePairs == {<<x1, sum_constraint - x1>> : x1 \in 0..sum_constraint}

\* the widths x for which y = 100 - 2x is not negative
GardenWidths == {x \in 0..sum_constraint : GardenY(x) >= 0}

HamiltonianSet == g_cell \in {"define", "sample", "done", "NameError"}

-----------------------------------------------------------------------------
(* process_job, as the Dirac-3 developer guide describes and records it
   (src/learn/Developer-resources/Entropy-quantum-optimization/
    Dirac-3-Developer-Beginner-Guide.ipynb) *)

\* "your job will progress through the following states"
JobProgression == <<"QUEUED", "RUNNING", "COMPLETED">>

\* process_job also hands back a job that is still running
IsFinalEager(s) == s \in {"RUNNING", "COMPLETED", "ERROR"}

\* "await the result": the job is over, with results or with an error
\* (error_status: job_response['status'] == "ERROR")
IsFinal(s) == s \in {"COMPLETED", "ERROR"}

\* the statuses that process_job prints
LoggedStatuses == {"QUEUED", "RUNNING", "COMPLETED", "ERROR"}

\* 'submitted_at_rfc3339nano': ..., 'queued_at_rfc3339nano': ... (0: absent)
Stamp(ts, field, t) == [ts EXCEPT ![field] = t]

InitJob ==
    /\ IdleDeploy /\ IdleSetPart /\ IdleQlcbo /\ IdleFeature /\ IdleGarden
    /\ job_state = "none"
    /\ job_history = <<>>
    /\ job_status = NoStamps
    /\ clock = 1
    /\ log = <<>>
    /\ returned_status = "none"
    /\ guide_out = "none"

JobOnly == UNCHANGED <<deployVars, spVars, qlVars, fsVars, gVars>>

\* time passes
Tick ==
    /\ clock < MaxClock
    /\ guide_out = "none"
    /\ clock' = clock + 1
    /\ JobOnly
    /\ UNCHANGED <<job_state, job_history, job_status, log, returned_status, guide_out>>

\* client.process_job(job_body=job_body): "Job submitted: job_id=..."
SubmitJob ==
    /\ job_state = "none"
    /\ job_state' = "SUBMITTED"
    /\ job_status' = Stamp(job_status, "submitted_at", clock)
    /\ log' = <<"Job submitted">>
    /\ JobOnly
    /\ UNCHANGED <<job_history, clock, returned_status, guide_out>>

\* QUEUED: waiting for the Dirac-3 to become available
ApiQueue ==
    /\ job_state = "SUBMITTED"
    /\ job_state' = "QUEUED"
    /\ job_history' = Append(job_history, "QUEUED")
    /\ job_status' = Stamp(job_status, "queued_at", clock)
    /\ JobOnly
    /\ UNCHANGED <<clock, log, returned_status, guide_out>>

\* RUNNING: the job has been submitted to the Dirac-3 and is running
ApiRun ==
    /\ job_state = "QUEUED"
    /\ job_state' = "RUNNING"
    /\ job_history' = Append(job_history, "RUNNING")
    /\ job_status' = Stamp(job_status, "running_at", clock)
    /\ JobOnly
    /\ UNCHANGED <<clock, log, returned_status, guide_out>>

\* COMPLETED: the job has completed and results are available
ApiComplete ==
    /\ job_state = "RUNNING"
    /\ job_state' = "COMPLETED"
    /\ job_history' = Append(job_history, "COMPLETED")
    /\ job_status' = Stamp(job_status, "completed_at", clock)
    /\ JobOnly
    /\ UNCHANGED <<clock, log, returned_status, guide_out>>

\* "if an error occurs": the job ends with status ERROR
ApiError ==
    /\ job_state \in {"SUBMITTED", "QUEUED", "RUNNING"}
    /\ job_state' = "ERROR"
    /\ job_history' = Append(job_history, "ERROR")
    /\ JobOnly
    /\ UNCHANGED <<job_status, clock, log, returned_status, guide_out>>

\* process_job looks at the job: it prints a status that it has not printed
\* yet and returns the response when the job is over
PollJob ==
    /\ job_state # "none"
    /\ returned_status = "none"
    /\ \/ job_state \in LoggedStatuses /\ log[Len(log)] # job_state
       \/ IsFinal(job_state)
    /\ log' = IF job_state \in LoggedStatuses /\ log[Len(log)] # job_state
              THEN Append(log, job_state) ELSE log
    /\ returned_status' = IF IsFinal(job_state) THEN job_state ELSE "none"
    /\ JobOnly
    /\ UNCHANGED <<job_state, job_history, job_status, clock, guide_out>>

\* assert job_response["status"] == client.JobStatus.COMPLETED.value; print
CellAssertCompleted ==
    /\ returned_status # "none"
    /\ guide_out = "none"
    /\ guide_out' = IF returned_status = "COMPLETED" THEN "printed"
                    ELSE "AssertionError"
    /\ JobOnly
    /\ UNCHANGED <<job_state, job_history, job_status, clock, log, returned_status>>

NextJob ==
    \/ Tick
    \/ SubmitJob
    \/ ApiQueue
    \/ ApiRun
    \/ ApiComplete
    \/ ApiError
    \/ PollJob
    \/ CellAssertCompleted

SpecJob == InitJob /\ [][NextJob]_vars

\* process_job has returned
Returned == returned_status # "none"

\* submitted <= queued <= running <= completed, all four present
StampsOrdered ==
    /\ 0 < job_status.submitted_at
    /\ job_status.submitted_at <= job_status.queued_at
    /\ job_status.queued_at <= job_status.running_at
    /\ job_status.running_at <= job_status.completed_at

\* the job has gone through the first k states of the progression
InProgression ==
    /\ Len(job_history) <= Len(JobProgression)
    /\ job_history = SubSeq(JobProgression, 1, Len(job_history))

-----------------------------------------------------------------------------
(* deploy workflow: the loading message, and other writers of the
   description *)

\* position of the step "Add Loading" among the steps
AddLoadingIndex == CHOOSE i \in 1..Len(Steps) : Steps[i] = "add-loading"

\* "Add Loading" has succeeded: pulls.update has stored currentDescription +
\* LOADING_MSG
LoadingAppended == pc > AddLoadingIndex

\* the job is over, with success or with failure
RunOver == status \in {"success", "failure"}

\* C12: when a run that has appended the loading message is over, the
\* description does not have the loading message any more, also when a step
\* after "Add Loading" has failed.
C12_LoadingRemoved ==
    (RunOver /\ LoadingAppended) => ~HasLoading(body)

\* a line that somebody else adds to the description
UserEdit == Line("edit", 0, "")

HasEdit(d) == ~d.null /\ \E i \in 1..Len(d.lines) : d.lines[i] = UserEdit

\* another writer stores a description with one more line, after the
\* script's pulls.get and before its pulls.update
OtherWriterEdit ==
    /\ status = "running" /\ pc \in 1..Len(Steps) /\ Steps[pc] \in ScriptSteps
    /\ currentPR.fetched
    /\ ~HasEdit(body)
    /\ body' = IF body.null THEN Str(<<UserEdit>>)
               ELSE Str(Append(body.lines, UserEdit))
    /\ DeployOnly
    /\ UNCHANGED <<pc, status, cause, PREVIEW_URLS, changed, event_number,
                   alias, currentPR, ret>>

NextDeployRace ==
    \/ NextDeploy
    \/ OtherWriterEdit

SpecDeployRace == InitDeploy /\ [][NextDeployRace]_vars

\* C13: a line that another writer has added between the script's pulls.get
\* and its pulls.update is still in the description after every later step.
C13_ForeignEditKept == [][HasEdit(body) => HasEdit(body')]_vars

====
